---- MODULE Spec2Model ----
(***************************************************************************)
(* Model of src/src/db.rs of librpm-rs: the database handle builder        *)
(* (Db, DbBuilder), the package iterator Iter over a MatchIterator, the    *)
(* Index enumeration with its mapping to native tags, and the query        *)
(* surface (Index::find, find, installed_packages).                        *)
(*                                                                         *)
(* crate::internal::iterator::MatchIterator, crate::internal::tag::Tag and *)
(* Header::to_package are declared elsewhere in the crate; db.rs only      *)
(* calls them.  They are modelled from the specification's sections 4.3    *)
(* and 6 and are marked as such below.                                     *)
(***************************************************************************)
EXTENDS Integers, Sequences, FiniteSets

(***************************************************************************)
(* Option<T>                                                               *)
(***************************************************************************)
None == [some |-> FALSE]
Some(v) == [some |-> TRUE, val |-> v]
IsSome(o) == o.some

(***************************************************************************)
(* Paths are byte strings (OsStr::as_bytes).  47 is '/', 97 is 'a', 0 is   *)
(* the NUL byte and 255 is a byte that is not valid UTF-8.                 *)
(***************************************************************************)
PlainPath == <<47, 97>>
NulPath == <<47, 0, 97>>
NonUtf8Path == <<47, 255>>
Paths == {PlainPath, NulPath, NonUtf8Path}

\* statuses rpmReadConfigFiles may return (a C int)
NativeStatus == {0, 1, -1}

\* Path::display(): lossy rendering, a byte that is not valid UTF-8 is shown
\* as U+FFFD (65533); ASCII bytes are shown as themselves.
Display(path) == [i \in 1..Len(path) |-> IF path[i] < 128 THEN path[i] ELSE 65533]

HasNul(bytes) == \E i \in 1..Len(bytes) : bytes[i] = 0

\* CString::new(bytes): Err(NulError) on an interior NUL byte, else the bytes
\* followed by the terminating NUL.
CStringNew(bytes) ==
    IF HasNul(bytes)
      THEN [ok |-> FALSE, cstr |-> <<>>]
      ELSE [ok |-> TRUE, cstr |-> Append(bytes, 0)]

\* What native code reads from a `const char *`: the bytes before the first NUL.
RECURSIVE CStrRead(_)
CStrRead(buf) ==
    IF buf = <<>> \/ Head(buf) = 0 THEN <<>> ELSE <<Head(buf)>> \o CStrRead(Tail(buf))

\* cstr.as_ptr() / ptr::null() as seen by rpmReadConfigFiles
NullPtr == None
AsPtr(cstr) == Some(CStrRead(cstr))

\* Error { kind, msg }: the message is the format string's literal part and the
\* formatted path (and, for "invalid path", the NulError).
ConfigError(text, arg) == [kind |-> "Config", msg |-> Some(<<text, arg>>)]
ErrorNew(kind, msg) == [kind |-> kind, msg |-> msg]

Err(e, native) == [tag |-> "Err", err |-> e, native |-> native]

(***************************************************************************)
(* Faulty variants of DbBuilder::open, used to show that the properties    *)
(* below depend on it.                                                     *)
(***************************************************************************)
\* without the existence check of lines 84-90
DbBuilderOpenNoExistsCheck(config, exists, rc) ==
    IF IsSome(config)
      THEN LET path == config.val
               c == CStringNew(path)
           IN  IF ~c.ok
                 THEN Err(ConfigError("invalid path: ", Display(path)), <<>>)
               ELSE IF rc # 0
                 THEN Err(ConfigError("error reading RPM config from: ", Display(path)),
                          <<AsPtr(c.cstr)>>)
               ELSE Err(ErrorNew("Config", None), <<AsPtr(c.cstr)>>)
      ELSE IF rc # 0
             THEN Err(ConfigError("error reading RPM config from default location", <<>>),
                      <<NullPtr>>)
             ELSE Err(ErrorNew("Config", None), <<NullPtr>>)

\* with CString::new(..).unwrap() in place of map_err(..)?
DbBuilderOpenUnwrap(config, exists, rc) ==
    IF IsSome(config)
      THEN LET path == config.val
               c == CStringNew(path)
           IN  IF ~exists
                 THEN Err(ConfigError("no such file: ", Display(path)), <<>>)
               ELSE IF ~c.ok
                 THEN [tag |-> "Panic", native |-> <<>>]
               ELSE IF rc # 0
                 THEN Err(ConfigError("error reading RPM config from: ", Display(path)),
                          <<AsPtr(c.cstr)>>)
               ELSE Err(ErrorNew("Config", None), <<AsPtr(c.cstr)>>)
      ELSE IF rc # 0
             THEN Err(ConfigError("error reading RPM config from default location", <<>>),
                      <<NullPtr>>)
             ELSE Err(ErrorNew("Config", None), <<NullPtr>>)

\* with ptr::null() passed to rpmReadConfigFiles in both arms
DbBuilderOpenNullArg(config, exists, rc) ==
    IF IsSome(config)
      THEN LET path == config.val
               c == CStringNew(path)
           IN  IF ~exists
                 THEN Err(ConfigError("no such file: ", Display(path)), <<>>)
               ELSE IF ~c.ok
                 THEN Err(ConfigError("invalid path: ", Display(path)), <<>>)
               ELSE IF rc # 0
                 THEN Err(ConfigError("error reading RPM config from: ", Display(path)),
                          <<NullPtr>>)
               ELSE Err(ErrorNew("Config", None), <<NullPtr>>)
      ELSE IF rc # 0
             THEN Err(ConfigError("error reading RPM config from default location", <<>>),
                      <<NullPtr>>)
             ELSE Err(ErrorNew("Config", None), <<NullPtr>>)

(***************************************************************************)
(* DbBuilder::open(self).  `exists` is the answer of Path::exists() and    *)
(* `rc` the status rpmReadConfigFiles returns if it is called; both come   *)
(* from the environment.  The result carries `native`, the sequence of     *)
(* arguments rpmReadConfigFiles was called with during this open.          *)
(***************************************************************************)
DbBuilderOpen(config, exists, rc) ==
    IF IsSome(config)
      THEN LET path == config.val
               c == CStringNew(path)
           IN  IF ~exists
                 THEN Err(ConfigError("no such file: ", Display(path)), <<>>)
               ELSE IF ~c.ok
                 THEN Err(ConfigError("invalid path: ", Display(path)), <<>>)
               ELSE IF rc # 0
                 THEN Err(ConfigError("error reading RPM config from: ", Display(path)),
                          <<AsPtr(c.cstr)>>)
               ELSE Err(ErrorNew("Config", None), <<AsPtr(c.cstr)>>)
      ELSE IF rc # 0
             THEN Err(ConfigError("error reading RPM config from default location", <<>>),
                      <<NullPtr>>)
             ELSE Err(ErrorNew("Config", None), <<NullPtr>>)

\* DbBuilder::default() / DbBuilder::new()
DbBuilderDefault == [config |-> None]
DbBuilderNew == DbBuilderDefault

\* DbBuilder::with_config(&mut self, config)
DbBuilderWithConfig(b, path) == [b EXCEPT !.config = Some(path)]

\* Db::open(): DbBuilder::<&Path>::new().open().  No path is configured, so
\* Path::exists() is not consulted.
DbOpen(rc) == DbBuilderOpen(DbBuilderNew.config, FALSE, rc)

\* Db::open_with(): DbBuilder::default()
DbOpenWith == DbBuilderDefault

(***************************************************************************)
(* Index and its mapping to the native tag (impl Into<Tag> for Index).     *)
(* The Tag variants are those of crate::internal::tag::Tag that db.rs      *)
(* names.                                                                  *)
(***************************************************************************)
Index == {"Name", "Version", "License", "Summary", "Description"}
Tag == {"NAME", "VERSION", "LICENSE", "SUMMARY", "DESCRIPTION"}

\* faulty variant: License and Name share a tag
IndexIntoTagCollide(index) ==
    CASE index = "Name" -> "NAME"
      [] index = "Version" -> "VERSION"
      [] index = "License" -> "NAME"
      [] index = "Summary" -> "SUMMARY"
      [] index = "Description" -> "DESCRIPTION"

IndexIntoTag(index) ==
    CASE index = "Name" -> "NAME"
      [] index = "Version" -> "VERSION"
      [] index = "License" -> "LICENSE"
      [] index = "Summary" -> "SUMMARY"
      [] index = "Description" -> "DESCRIPTION"

(***************************************************************************)
(* The database: a finite sequence of headers, each giving a value to      *)
(* every tag.  It is read only.                                            *)
(***************************************************************************)
MaxDb == 2

RpmDevel == [NAME |-> "rpm-devel", VERSION |-> "4.14.0", LICENSE |-> "GPLv2",
             SUMMARY |-> "RPM development files", DESCRIPTION |-> "rpm-devel"]
Rpm == [NAME |-> "rpm", VERSION |-> "4.14.0", LICENSE |-> "GPLv2",
        SUMMARY |-> "rpm-devel", DESCRIPTION |-> "4.14.0"]
Headers == {RpmDevel, Rpm}
Databases == UNION {[1..n -> Headers] : n \in 0..MaxDb}

\* search keys callers pass
Keys == {"rpm-devel", "4.14.0"}

(***************************************************************************)
(* MatchIterator (crate::internal::iterator) and Header::to_package, as    *)
(* the specification describes them: a forward-only cursor over the        *)
(* records whose field `tag` equals the key, or over all records when no   *)
(* key is given; exhausted stays exhausted; dropping releases the native   *)
(* cursor.                                                                 *)
(***************************************************************************)
MatchIteratorNew(tag, key) == [tag |-> tag, key |-> key, pos |-> 0]

Matches(d, mi) ==
    SelectSeq(d, LAMBDA h : ~IsSome(mi.key) \/ h[mi.tag] = mi.key.val)

\* StreamingIterator::next: advance, then get
MatchIteratorNext(d, mi) ==
    IF mi.pos < Len(Matches(d, mi))
      THEN [self |-> [mi EXCEPT !.pos = @ + 1], ret |-> Some(Matches(d, mi)[mi.pos + 1])]
      ELSE [self |-> mi, ret |-> None]

\* Drop for MatchIterator: frees the native cursor; n counts its releases
MatchIteratorDrop(n) == n + 1

HeaderToPackage(h) ==
    [name |-> h.NAME, version |-> h.VERSION, license |-> h.LICENSE,
     summary |-> h.SUMMARY, description |-> h.DESCRIPTION]

\* .map(|h| h.to_package()) on the Option<Header> the MatchIterator returns
MapToPackage(o) == IF IsSome(o) THEN Some(HeaderToPackage(o.val)) ELSE None

(***************************************************************************)
(* Iter: the tuple struct Iter(MatchIterator); it[1] is self.0             *)
(***************************************************************************)
Iter(mi) == <<mi>>

\* faulty variant: a restartable Iter, which opens a fresh cursor when the
\* current one is exhausted
IterNextRestart(d, it) ==
    LET r == MatchIteratorNext(d, it[1])
    IN  IF IsSome(r.ret)
          THEN [self |-> Iter(r.self), ret |-> MapToPackage(r.ret)]
          ELSE [self |-> Iter(MatchIteratorNew(it[1].tag, it[1].key)), ret |-> None]

\* Iterator::next for Iter
IterNext(d, it) ==
    LET r == MatchIteratorNext(d, it[1])
    IN  [self |-> Iter(r.self), ret |-> MapToPackage(r.ret)]

\* faulty variant: the MatchIterator is forgotten instead of dropped
IterDropForget(n) == n

\* Dropping an Iter drops its only field
IterDrop(n) == MatchIteratorDrop(n)

\* Index::find(self, key)
IndexFind(index, key) == Iter(MatchIteratorNew(IndexIntoTag(index), Some(key)))

\* faulty variant: installed_packages() with a key filter
InstalledPackagesKeyed == Iter(MatchIteratorNew("NAME", Some("rpm-devel")))

\* installed_packages()
InstalledPackages == Iter(MatchIteratorNew("NAME", None))

\* faulty variant: find() that ignores its index
FindByName(index, key) == IndexFind("Name", key)

\* find(index, key)
Find(index, key) == IndexFind(index, key)

(***************************************************************************)
(* State                                                                   *)
(***************************************************************************)
VARIABLES
    db,       \* the database the process reads
    builder,  \* the DbBuilder the caller holds, if any
    opened,   \* the outcome of the latest open, with the inputs it had
    iters     \* the Iter values callers hold, each with its call's history

vars == <<db, builder, opened, iters>>

IterIds == {"i1", "i2"}
MaxCallsAfterNone == 2

NeverOpened == [tag |-> "Never"]

FreeSlot ==
    [st |-> "free", it |-> InstalledPackages, via |-> "none", index |-> None,
     key |-> None, rets |-> <<>>, released |-> 0, openAtCreate |-> "Never"]

Init ==
    /\ db \in Databases
    /\ builder = None
    /\ opened = NeverOpened
    /\ iters = [i \in IterIds |-> FreeSlot]

\* the outcome of an open together with the inputs that decided it
Outcome(config, exists, rc, res) ==
    [tag |-> res.tag, res |-> res, config |-> config,
     exists |-> IF IsSome(config) THEN Some(exists) ELSE None,
     rc |-> IF res.native # <<>> THEN Some(rc) ELSE None]

NewSlot(it, via, index, key) ==
    [st |-> "live", it |-> it, via |-> via, index |-> index, key |-> key,
     rets |-> <<>>, released |-> 0, openAtCreate |-> opened.tag]

\* Db::open()
CallDbOpen ==
    \E rc \in NativeStatus :
        /\ opened' = Outcome(DbBuilderNew.config, FALSE, rc, DbOpen(rc))
        /\ UNCHANGED <<db, builder, iters>>

\* Db::open_with()
CallDbOpenWith ==
    /\ builder = None
    /\ builder' = Some(DbOpenWith)
    /\ UNCHANGED <<db, opened, iters>>

\* builder.with_config(path)
CallWithConfig ==
    \E path \in Paths :
        /\ IsSome(builder)
        /\ builder' = Some(DbBuilderWithConfig(builder.val, path))
        /\ UNCHANGED <<db, opened, iters>>

\* faulty variant: an open that also starts a scan of the database
CallBuilderOpenWithCursor ==
    \E exists \in BOOLEAN, rc \in NativeStatus, i \in IterIds :
        /\ IsSome(builder)
        /\ iters[i].st = "free"
        /\ opened' = Outcome(builder.val.config, exists, rc,
                             DbBuilderOpen(builder.val.config, exists, rc))
        /\ builder' = None
        /\ iters' = [iters EXCEPT ![i] = NewSlot(InstalledPackages, "open", None, None)]
        /\ UNCHANGED db

\* builder.open(): consumes the builder
CallBuilderOpen ==
    \E exists \in BOOLEAN, rc \in NativeStatus :
        /\ IsSome(builder)
        /\ opened' = Outcome(builder.val.config, exists, rc,
                             DbBuilderOpen(builder.val.config, exists, rc))
        /\ builder' = None
        /\ UNCHANGED <<db, iters>>

\* index.find(key)
CallIndexFind(i) ==
    \E index \in Index, key \in Keys :
        /\ iters[i].st = "free"
        /\ iters' = [iters EXCEPT ![i] =
                        NewSlot(IndexFind(index, key), "Index::find", Some(index), Some(key))]
        /\ UNCHANGED <<db, builder, opened>>

\* find(index, key)
CallFind(i) ==
    \E index \in Index, key \in Keys :
        /\ iters[i].st = "free"
        /\ iters' = [iters EXCEPT ![i] =
                        NewSlot(Find(index, key), "find", Some(index), Some(key))]
        /\ UNCHANGED <<db, builder, opened>>

\* installed_packages()
CallInstalledPackages(i) ==
    /\ iters[i].st = "free"
    /\ iters' = [iters EXCEPT ![i] =
                    NewSlot(InstalledPackages, "installed_packages", None, None)]
    /\ UNCHANGED <<db, builder, opened>>

NoneCount(rets) == Cardinality({j \in 1..Len(rets) : ~IsSome(rets[j])})

\* it.next()
CallNext(i) ==
    /\ iters[i].st = "live"
    /\ NoneCount(iters[i].rets) <= MaxCallsAfterNone
    /\ LET r == IterNext(db, iters[i].it)
       IN  iters' = [iters EXCEPT ![i].it = r.self, ![i].rets = Append(@, r.ret)]
    /\ UNCHANGED <<db, builder, opened>>

\* the Iter goes out of scope
CallDrop(i) ==
    /\ iters[i].st = "live"
    /\ iters' = [iters EXCEPT ![i].st = "dropped",
                              ![i].released = IterDrop(@)]
    /\ UNCHANGED <<db, builder, opened>>

OpenStep == CallDbOpen \/ CallDbOpenWith \/ CallWithConfig \/ CallBuilderOpen

IterStep(i) ==
    \/ CallIndexFind(i)
    \/ CallFind(i)
    \/ CallInstalledPackages(i)
    \/ CallNext(i)
    \/ CallDrop(i)

\* one caller: opens and queries through a single Iter at a time
Next == OpenStep \/ IterStep("i1")

Spec == Init /\ [][Next]_vars

\* two callers side by side: one goes through Index::find, the other through
\* the free function find
PairNext ==
    \/ CallIndexFind("i1")
    \/ CallFind("i2")
    \/ \E i \in IterIds : CallNext(i)
    \/ \E i \in IterIds : CallDrop(i)

SpecPair == Init /\ [][PairNext]_vars

\* a caller that drains its Iter (`for package in iter { .. }`): next() until it
\* returns None, then the Iter goes out of scope
Drained(i) == NoneCount(iters[i].rets) > 0

DrainCreate == CallIndexFind("i1") \/ CallFind("i1") \/ CallInstalledPackages("i1")
DrainStep == ~Drained("i1") /\ CallNext("i1")
DrainEnd == Drained("i1") /\ CallDrop("i1")

DrainNext == DrainCreate \/ DrainStep \/ DrainEnd

\* the loop is synchronous code that runs to completion: it is never suspended
SpecDrain == Init /\ [][DrainNext]_vars /\ WF_vars(DrainNext)

(***************************************************************************)
(* Properties                                                              *)
(***************************************************************************)
Yielded(rets) ==
    LET s == SelectSeq(rets, IsSome) IN [k \in 1..Len(s) |-> s[k].val]

IsPrefix(a, b) == Len(a) <= Len(b) /\ \A k \in 1..Len(a) : a[k] = b[k]

Exists(i) == iters[i].st # "free"

HasOpened == opened.tag # "Never"

\* C1: Db::open() (no path) is Ok if and only if the native initialization
\* returned status zero.
C1_OpenOkIffStatusZero ==
    (HasOpened /\ opened.config = None)
        => ((opened.tag = "Ok") <=> (opened.rc = Some(0)))

\* C2: opening with a configured path that does not exist fails with a
\* Configuration error whose message carries that path, and
\* rpmReadConfigFiles is not called during that open.
C2_MissingPathFailsBeforeNative ==
    (HasOpened /\ IsSome(opened.config) /\ opened.exists = Some(FALSE))
        => /\ opened.tag = "Err"
           /\ opened.res.err.kind = "Config"
           /\ opened.res.err.msg =
                  Some(<<"no such file: ", Display(opened.config.val)>>)
           /\ opened.res.native = <<>>

C2_Witness ==
    /\ HasOpened
    /\ opened.config = Some(PlainPath)
    /\ opened.exists = Some(FALSE)
    /\ opened.tag = "Err"

\* C3: opening with a configured path that contains a NUL byte returns a
\* Configuration error value: it does not panic and rpmReadConfigFiles is
\* not called, whichever of the two checks rejects the path.
C3_NulPathIsConfigError ==
    (HasOpened /\ IsSome(opened.config) /\ HasNul(opened.config.val))
        => /\ opened.tag = "Err"
           /\ opened.res.err.kind = "Config"
           /\ IsSome(opened.res.err.msg)
           /\ opened.res.err.msg.val[1] \in {"no such file: ", "invalid path: "}
           /\ opened.res.native = <<>>

C3_Witness ==
    /\ HasOpened
    /\ opened.config = Some(NulPath)
    /\ opened.tag = "Err"
    /\ opened.res.native = <<>>

\* C4: with an explicit path that exists and is representable,
\* rpmReadConfigFiles is called exactly once, with exactly that path, and a
\* nonzero status gives a Configuration error naming the path; with no path
\* it is called exactly once with a null path and a nonzero status gives a
\* Configuration error naming the default location.
C4_NativeCallAndStatus ==
    HasOpened =>
        /\ Len(opened.res.native) <= 1
        /\ (IsSome(opened.config) /\ opened.exists = Some(TRUE)
              /\ ~HasNul(opened.config.val))
             => /\ opened.res.native = <<Some(opened.config.val)>>
                /\ (opened.rc # Some(0))
                     => /\ opened.tag = "Err"
                        /\ opened.res.err.kind = "Config"
                        /\ opened.res.err.msg =
                               Some(<<"error reading RPM config from: ",
                                      Display(opened.config.val)>>)
        /\ (opened.config = None)
             => /\ opened.res.native = <<NullPtr>>
                /\ (opened.rc # Some(0))
                     => /\ opened.tag = "Err"
                        /\ opened.res.err.kind = "Config"
                        /\ opened.res.err.msg =
                               Some(<<"error reading RPM config from default location",
                                      <<>>>>)

C4_Witness ==
    /\ HasOpened
    /\ opened.config = Some(NonUtf8Path)
    /\ opened.exists = Some(TRUE)
    /\ opened.rc = Some(-1)
    /\ opened.res.native = <<Some(NonUtf8Path)>>

\* C5 (as claimed): a native cursor exists only if an open had succeeded
\* when it was created.
C5_CursorOnlyAfterOpenOk ==
    \A i \in IterIds : Exists(i) => iters[i].openAtCreate = "Ok"

\* C5 (amended): an open, failed or not, creates no native cursor itself;
\* cursors come only from Index::find, find and installed_packages, which
\* do not consult the outcome of any open.
C5_OpenCreatesNoCursor ==
    [][(opened' # opened \/ builder' # builder) => iters' = iters]_vars

C5_Witness ==
    /\ opened.tag = "Err"
    /\ iters["i1"].st = "live"
    /\ iters["i1"].openAtCreate = "Err"

\* C6: once next() has returned None, every later next() on the same Iter
\* returns None as well: no record, old or new, follows the exhausted signal.
C6_ExhaustedStaysExhausted ==
    \A i \in IterIds :
        \A j, k \in 1..Len(iters[i].rets) :
            (j < k /\ iters[i].rets[j] = None) => iters[i].rets[k] = None

C6_Witness ==
    \E i \in IterIds :
        LET r == iters[i].rets
        IN  /\ Len(r) = 4
            /\ IsSome(r[1])
            /\ r[2] = None /\ r[3] = None /\ r[4] = None

\* C7: the native cursor of an Iter is released exactly once, by the drop,
\* whatever the Iter's state and however many records were consumed: never
\* before the drop, once after it.
C7_ReleasedExactlyOnce ==
    \A i \in IterIds :
        /\ iters[i].st = "dropped" => iters[i].released = 1
        /\ iters[i].st \in {"free", "live"} => iters[i].released = 0

\* dropped after one record, with a second one still to come
C7_Witness ==
    \E i \in IterIds :
        /\ iters[i].st = "dropped"
        /\ iters[i].released = 1
        /\ Len(iters[i].rets) = 1
        /\ IsSome(iters[i].rets[1])
        /\ Len(Matches(db, iters[i].it[1])) = 2

\* C8: every Index variant maps to one native tag, and two different
\* variants never map to the same tag.
C8_TagMappingInjective ==
    /\ \A a \in Index : IndexIntoTag(a) \in Tag
    /\ \A a, b \in Index : a # b => IndexIntoTag(a) # IndexIntoTag(b)
    /\ \A i, j \in IterIds :
          (Exists(i) /\ Exists(j) /\ iters[i].index # iters[j].index)
              => iters[i].it[1].tag # iters[j].it[1].tag

C8_Witness ==
    /\ Exists("i1") /\ iters["i1"].index = Some("Name")
    /\ Exists("i2") /\ iters["i2"].index = Some("License")
    /\ iters["i1"].it[1].tag = "NAME"
    /\ iters["i2"].it[1].tag = "LICENSE"

PackageField(pkg, index) ==
    CASE index = "Name" -> pkg.name
      [] index = "Version" -> pkg.version
      [] index = "License" -> pkg.license
      [] index = "Summary" -> pkg.summary
      [] index = "Description" -> pkg.description

CursorPackages(mi) ==
    [k \in 1..Len(Matches(db, mi)) |-> HeaderToPackage(Matches(db, mi)[k])]

DrainOfAll ==
    iters["i1"].via = "installed_packages"
        => /\ iters["i1"].it[1].tag = "NAME"
           /\ iters["i1"].it[1].key = None
           /\ IsPrefix(Yielded(iters["i1"].rets), CursorPackages(iters["i1"].it[1]))
           /\ NoneCount(iters["i1"].rets) <= 1
           /\ Drained("i1")
                 => /\ iters["i1"].rets[Len(iters["i1"].rets)] = None
                    /\ Yielded(iters["i1"].rets) = CursorPackages(iters["i1"].it[1])
                    /\ Len(Yielded(iters["i1"].rets)) = Len(db)

\* C10: installed_packages() binds its cursor to the NAME tag with no key;
\* draining it yields the cursor's records in cursor order, one per
\* successful next(), then None, after which nothing more is yielded; and
\* the drain always comes to its end.
C10_DrainTerminates ==
    /\ []DrainOfAll
    /\ (iters["i1"].st = "live") ~> (iters["i1"].st = "dropped")

C10_Witness ==
    /\ iters["i1"].via = "installed_packages"
    /\ iters["i1"].st = "dropped"
    /\ Len(iters["i1"].rets) = 3
    /\ Len(db) = 2
====
